---- MODULE Spec2Model ----
(***************************************************************************)
(* A model of the pymirror "bambulab" module: the per-tick print-job       *)
(* detection of BambuDisplay.draw, the cover-download worker thread, and   *)
(* the cloud login state machine of the REMI web app (MyApp).              *)
(*                                                                         *)
(* Python's None is written 0 for time stamps and worker ids (NoTime,      *)
(* NoCover) and "None" for references, so that every variable keeps one    *)
(* type.                                                                   *)
(***************************************************************************)
EXTENDS Integers, Sequences, FiniteSets

(* ------------------------------ bounds -------------------------------- *)

\* Number of print jobs (and hence cover workers) a behaviour may start.
MaxJobs == 2
\* Number of distinct start_time values the telemetry may report.
MaxStartTime == 2

(* ----------------------------- data model ----------------------------- *)

\* None, for a time stamp.
NoTime == 0
\* The value of datetime.datetime.now() (bambudisplay.py:326): a time stamp
\* that is none of the start times reported by the printer.
Now == -1
\* self._print_job_start before its first assignment: line 138 only annotates it.
Unset == -2
\* None, for self._cover_image; self._cover_fname before a worker assigns it.
NoCover == 0

\* Values of device.print_job.gcode_state used here: the three the code names
\* and two of the states pybambu reports while a job is running.
GcodeStates == {"IDLE", "FINISH", "FAILED", "RUNNING", "PAUSE"}

StartTimes == 1..MaxStartTime

\* device.print_job when it is None.
NoPrintJob == [present |-> FALSE, gcode_state |-> "IDLE", start_time |-> NoTime]

\* The values of device.print_job: None, or a descriptor with a gcode_state
\* and an optional start_time.
Snapshots ==
    {NoPrintJob} \cup
    [present : {TRUE}, gcode_state : GcodeStates, start_time : {NoTime} \cup StartTimes]

VARIABLES
    \* ---- BambuDisplay and its collaborators
    boot,                    \* how far BambuDisplay.__init__ has come: "created",
                             \* "constructing", "checking", then "up" or "failed"
    _cloud_connected,        \* BambuDisplay._cloud_connected
    client_connected,        \* self._client.connected (telemetry link)
    device,                  \* self._client.get_device().print_job, the live snapshot
    _print_job,              \* "None", or "job": the reference kept at line 319
    _cover_downloaded,       \* BambuDisplay._cover_downloaded
    _cover_image,            \* NoCover, or the worker whose file was loaded
    _cover_fname,            \* NoCover (unassigned), or the worker that wrote it
    _first_print_job_start,  \* NoTime or a start time
    _print_job_start,        \* Unset, NoTime, Now or a start time
    workers,                 \* the cover threads started so far: [pc, job]
    \* ---- history of the render loop
    job_starts,              \* times "New print job started" was logged (line 318)
    job_ends,                \* times "Print job ended" was logged (line 328)
    tick_result,             \* branch taken by the last detection step
    draw_raised,             \* the last draw ended in AttributeError (line 333)
    \* ---- history of the snapshots the detection has observed
    last_active,             \* the snapshot last observed was an active one
    runs,                    \* maximal runs of active snapshots begun so far
    drops,                   \* changes from an active to a terminal snapshot
    backfill_T,              \* start time the last step had to backfill, or NoTime
    downloaded_by,           \* job of the worker that last set _cover_downloaded
    \* ---- MyApp (remiapp.py) and the threads running its handlers
    devices,                 \* the local "devices" of the start-up cloud check
    cloud_state,             \* MyApp.cloud_state, "NoApp" before MyApp exists
    app_init,                \* MyApp.init
    offered,                 \* the buttons update_ui has put on the page
    hq,                      \* per thread: the statements its handler has left
    \* ---- history of the handlers
    call,                    \* per thread: the call in progress
    last,                    \* the call that returned last, NoCall once another began
    login_seen,              \* per login result: what a login from LOGGED_OUT did
    user_acted,              \* a button has been pressed since the start
    \* ---- the token store and the cloud's tokens
    token_file,              \* content of the file at _token_path
    auth_token,              \* client_config["auth_token"] given to BambuClient
    issued                   \* tokens the cloud has issued so far

job_vars ==
    <<client_connected, device, _print_job, _cover_downloaded, _cover_image,
      _cover_fname, _first_print_job_start, _print_job_start, workers,
      job_starts, job_ends, tick_result, draw_raised, last_active, runs, drops,
      backfill_T, downloaded_by>>

tok_vars == <<token_file, auth_token, issued, user_acted>>

auth_vars ==
    <<devices, cloud_state, app_init, offered, hq, call, last, login_seen, tok_vars>>

vars == <<boot, _cloud_connected, job_vars, auth_vars>>

(* ------------------------ cloud collaborator -------------------------- *)

\* Largest device list the cloud returns.
MaxDevices == 2

\* What bambu_cloud.get_device_list() does: it returns a list of n devices,
\* returns None, raises ValueError, or raises another exception.
DeviceListResults ==
    [kind : {"list"}, n : 0..MaxDevices] \cup
    [kind : {"None", "ValueError", "Exception"}, n : {0}]

\* The local "devices" while no lookup result is held.
NoDevices == [kind |-> "none", n |-> 0]

\* What bambu_cloud.login() does: it returns, or raises CloudflareError,
\* EmailCodeRequiredError or another exception.
LoginResults == {"ok", "CloudflareError", "EmailCodeRequiredError", "Exception"}

\* What bambu_cloud.login_with_verification_code() does: it returns, or raises
\* EmailCodeExpiredError, ValueError, EmailCodeIncorrectError or another
\* exception.
VerifyResults ==
    {"ok", "EmailCodeExpiredError", "ValueError", "EmailCodeIncorrectError",
     "Exception"}

\* remiapp.CloudState, and the value standing for "no MyApp object yet".
CloudState == {"UNKNOWN", "LOGGED_OUT", "CODE_SENT", "LOGGING_IN", "LOGGED_IN", "BLOCKED"}

\* The threads that run MyApp's code: page requests call main(), the
\* websocket thread calls the button handlers.
Threads == {"http", "ws"}

\* Most tokens the cloud issues, earlier runs of the program included.
MaxTokens == 2

\* The token file: absent, empty (opened for writing, nothing written yet),
\* or holding the k-th token the cloud issued. NoToken is the auth_token of a
\* client that was given none.
NoFile == 0
EmptyFile == -1
NoToken == 0
Tokens == 1..MaxTokens

\* One statement a handler has still to execute.
Op(o, a) == [op |-> o, arg |-> a]

\* The record kept of a call until it ends: where it started, what the cloud answered, the
\* states it passed to set_cloud_state, the verification codes it requested,
\* whether it was left by an exception, the calls it made to the cloud client,
\* the token file it found and its local "token" (line 173).
NoCall ==
    [op |-> "none", from |-> "NoApp", outcome |-> "", n |-> 0,
     sets |-> <<>>, codes |-> 0, raised |-> FALSE,
     cloud |-> 0, file |-> NoFile, token |-> NoToken]

NewCall(o, st) == [NoCall EXCEPT !.op = o, !.from = st, !.file = token_file]

\* No login from LOGGED_OUT has ended with this result yet.
NotSeen == [seen |-> FALSE, sets |-> <<>>, codes |-> 0]

(* --------------------- BambuDisplay.__init__ -------------------------- *)

Init ==
    /\ boot = "created"
    /\ _cloud_connected = FALSE
    /\ client_connected = FALSE
    /\ device = NoPrintJob
    /\ _print_job = "None"
    /\ _cover_downloaded = FALSE
    /\ _cover_image = NoCover
    /\ _cover_fname = NoCover
    /\ _first_print_job_start = NoTime
    /\ _print_job_start = Unset
    /\ workers = <<>>
    /\ job_starts = 0
    /\ job_ends = 0
    /\ tick_result = "None"
    /\ draw_raised = FALSE
    /\ last_active = FALSE
    /\ runs = 0
    /\ drops = 0
    /\ backfill_T = NoTime
    /\ downloaded_by = 0
    /\ devices = NoDevices
    /\ cloud_state = "NoApp"
    /\ app_init = FALSE
    /\ offered = {}
    /\ hq = [t \in Threads |-> <<>>]
    /\ call = [t \in Threads |-> NoCall]
    /\ last = NoCall
    /\ login_seen = [res \in LoginResults |-> NotSeen]
    /\ user_acted = FALSE
    /\ auth_token = NoToken
    /\ token_file = NoFile
    /\ issued = 0

\* The program is stopped and started again (init() creates a new
\* BambuDisplay): every object starts afresh, the token file is what the
\* last run left, and the cloud remembers the tokens it has issued.
restart ==
    /\ boot # "created"
    /\ boot' = "created"
    /\ _cloud_connected' = FALSE
    /\ client_connected' = FALSE
    /\ device' = NoPrintJob
    /\ _print_job' = "None"
    /\ _cover_downloaded' = FALSE
    /\ _cover_image' = NoCover
    /\ _cover_fname' = NoCover
    /\ _first_print_job_start' = NoTime
    /\ _print_job_start' = Unset
    /\ workers' = <<>>
    /\ job_starts' = 0
    /\ job_ends' = 0
    /\ tick_result' = "None"
    /\ draw_raised' = FALSE
    /\ last_active' = FALSE
    /\ runs' = 0
    /\ drops' = 0
    /\ backfill_T' = NoTime
    /\ downloaded_by' = 0
    /\ devices' = NoDevices
    /\ cloud_state' = "NoApp"
    /\ app_init' = FALSE
    /\ offered' = {}
    /\ hq' = [t \in Threads |-> <<>>]
    /\ call' = [t \in Threads |-> NoCall]
    /\ last' = NoCall
    /\ login_seen' = [res \in LoginResults |-> NotSeen]
    /\ user_acted' = FALSE
    /\ auth_token' = NoToken
    /\ UNCHANGED <<token_file, issued>>

\* Lines 145-164 with the content of the file not handed on.
ReadToken_Dropped(content) == NoToken

\* Path.read_text().rstrip(), line 148, and the test of line 163: a token
\* holds no white space and is read back as written; the empty string of an
\* empty file is not handed on.
ReadToken(content) == IF content \in Tokens THEN content ELSE NoToken

\* BambuDisplay.__init__, lines 145-166: the token file, if there is one, is
\* read into client_config["auth_token"] and the BambuClient is created.
BambuDisplay_read_token ==
    /\ boot = "created"
    /\ auth_token' = IF token_file # NoFile THEN ReadToken(token_file) ELSE NoToken
    /\ boot' = "constructing"
    /\ UNCHANGED <<_cloud_connected, job_vars, devices, cloud_state, app_init,
                   offered, hq, call, last, login_seen, token_file, issued,
                   user_acted>>

\* BambuDisplay.update_cloud_state: the value _cloud_connected ends with.
DisplayConnected(res) == res.kind = "list" /\ res.n > 0

\* BambuDisplay.update_cloud_state, called last in BambuDisplay.__init__,
\* lines 174-178: clear the flag and ask the cloud for the device list. An
\* exception other than ValueError leaves the constructor, and init() with it.
BambuDisplay_get_device_list ==
    /\ boot = "constructing"
    /\ \E res \in DeviceListResults :
        /\ devices' = res
        /\ boot' = IF res.kind = "Exception" THEN "failed" ELSE "checking"
    /\ _cloud_connected' = FALSE
    /\ UNCHANGED <<job_vars, tok_vars, cloud_state, app_init, offered, hq, call, last, login_seen>>

\* BambuDisplay.update_cloud_state, lines 179-186: the flag the start-up
\* check ends with; the constructor returns.
BambuDisplay_update_cloud_state ==
    /\ boot = "checking"
    /\ _cloud_connected' = DisplayConnected(devices)
    /\ devices' = NoDevices
    /\ boot' = "up"
    /\ UNCHANGED <<job_vars, tok_vars, cloud_state, app_init, offered, hq, call, last, login_seen>>

(* --------------------------- telemetry -------------------------------- *)

\* The telemetry thread replaces the snapshot the render loop will read.
telemetry_update ==
    /\ boot = "up"
    /\ \E d \in Snapshots : d # device /\ device' = d
    /\ UNCHANGED <<boot, _cloud_connected, client_connected, _print_job,
                   _cover_downloaded, _cover_image, _cover_fname,
                   _first_print_job_start, _print_job_start, workers, job_starts,
                   job_ends, tick_result, draw_raised, last_active, runs, drops,
                   backfill_T, downloaded_by, auth_vars>>

\* The telemetry link comes up or goes down.
telemetry_link ==
    /\ boot = "up"
    /\ client_connected' = ~client_connected
    /\ UNCHANGED <<boot, _cloud_connected, device, _print_job,
                   _cover_downloaded, _cover_image, _cover_fname,
                   _first_print_job_start, _print_job_start, workers, job_starts,
                   job_ends, tick_result, draw_raised, last_active, runs, drops,
                   backfill_T, downloaded_by, auth_vars>>

(* ------------------------ BambuDisplay.draw --------------------------- *)

\* What the claims call an active snapshot: a job descriptor is present and
\* its gcode_state is outside the terminal set.
TerminalStates == {"IDLE", "FINISH", "FAILED"}
ActiveSnapshot(d) == d.present /\ d.gcode_state \notin TerminalStates

\* Line 317 without its "self._print_job is None" test.
JobStartCond_NoTrackedTest(pj, d) ==
    d.present /\ d.gcode_state \notin {"IDLE", "FINISH", "FAILED"}

\* Line 317: the condition of the "New print job started" branch.
JobStartCond(pj, d) ==
    pj = "None" /\ d.present /\ d.gcode_state \notin {"IDLE", "FINISH", "FAILED"}

\* Line 327 with "FAILED" missing from its tuple.
JobEndCond_NoFailed(pj, d) ==
    pj # "None" /\ (~d.present \/ d.gcode_state \in {"IDLE", "FINISH"})

\* Line 327: the condition of the "Print job ended" branch (an elif).
JobEndCond(pj, d) ==
    pj # "None" /\ (~d.present \/ d.gcode_state \in {"IDLE", "FINISH", "FAILED"})

\* Lines 320-324 moved out of the job-start branch.
SpawnCond_EveryTick(started, downloaded) == ~downloaded

\* Lines 320-324: a cover thread is started inside the job-start branch only,
\* and only when no cover is marked as downloaded.
SpawnCond(started, downloaded) == started /\ ~downloaded

\* Line 326: the start time kept for a new job.
JobStartTime(d) == IF d.start_time # NoTime THEN d.start_time ELSE Now

\* Line 333 with the test of the first start time inverted.
BackfillCond_Inverted(first, d) == first # NoTime /\ d.start_time # NoTime

\* Line 333: the condition of the start-time backfill, evaluated when
\* device.print_job is not None.
BackfillCond(first, d) == first = NoTime /\ d.start_time # NoTime

\* Lines 388-393 and 419: the cover image is loaded at the end of a tick.
LoadCond(cloud, pj, downloaded, image) ==
    cloud /\ pj # "None" /\ downloaded /\ image = NoCover

\* One render tick with the telemetry client connected (lines 299-424; with
\* the client disconnected draw returns at line 307 having changed nothing).
\* The tick reads one snapshot: of the two branch conditions only one gets as
\* far as reading gcode_state, and start_time is taken as not changing within
\* the tick. Lines 338-384 read the device only; line 355 can raise on a
\* missing job descriptor, after which nothing of lines 393-422 would run either.
draw ==
    /\ boot = "up"
    /\ client_connected
    /\ LET d == device
           started == JobStartCond(_print_job, d)
           ended == ~started /\ JobEndCond(_print_job, d)
           spawn == SpawnCond(started, _cover_downloaded)
           pj1 == IF started THEN "job" ELSE IF ended THEN "None" ELSE _print_job
           cd1 == IF ended THEN FALSE ELSE _cover_downloaded
           ci1 == IF spawn \/ ended THEN NoCover ELSE _cover_image
           first1 == IF started THEN d.start_time ELSE _first_print_job_start
           start1 == IF started THEN JobStartTime(d)
                     ELSE IF ended THEN NoTime ELSE _print_job_start
           \* line 333 reads device.print_job.start_time: AttributeError on None
           raised == first1 = NoTime /\ ~d.present
           backfill == d.present /\ BackfillCond(first1, d)
           load == ~raised /\ LoadCond(_cloud_connected, pj1, cd1, ci1)
           active == ActiveSnapshot(d)
       IN
       /\ started => job_starts < MaxJobs
       /\ spawn => Len(workers) < MaxJobs
       /\ (active /\ ~last_active) => runs < MaxJobs
       /\ _print_job' = pj1
       /\ _cover_downloaded' = cd1
       /\ _cover_image' = IF load THEN _cover_fname ELSE ci1
       /\ _first_print_job_start' = IF backfill THEN d.start_time ELSE first1
       /\ _print_job_start' = IF backfill THEN d.start_time ELSE start1
       /\ workers' = IF spawn
                     THEN Append(workers, [pc |-> "fetch",
                                           job |-> IF started THEN job_starts + 1
                                                   ELSE job_starts])
                     ELSE workers
       /\ job_starts' = IF started THEN job_starts + 1 ELSE job_starts
       /\ job_ends' = IF ended THEN job_ends + 1 ELSE job_ends
       /\ tick_result' = IF started THEN "JobStarted"
                         ELSE IF ended THEN "JobEnded" ELSE "None"
       /\ draw_raised' = raised
       /\ last_active' = active
       /\ runs' = IF active /\ ~last_active THEN runs + 1 ELSE runs
       /\ drops' = IF ~active /\ last_active THEN drops + 1 ELSE drops
       /\ backfill_T' = IF /\ _print_job # "None"
                            /\ _first_print_job_start = NoTime
                            /\ active
                         THEN d.start_time ELSE NoTime
    /\ UNCHANGED <<boot, _cloud_connected, client_connected, device,
                   _cover_fname, downloaded_by, auth_vars>>

(* ------------------ bambu_download_cover_thread ----------------------- *)

worker_unchanged ==
    UNCHANGED <<boot, _cloud_connected, client_connected, device, _print_job,
                _cover_image, _first_print_job_start, _print_job_start,
                job_starts, job_ends, tick_result, draw_raised, last_active,
                runs, drops, backfill_T, auth_vars>>

SetPc(i, pc) == [workers EXCEPT ![i].pc = pc]

\* Lines 96-100: look up the latest task, download its cover, write the file.
\* Any exception is caught at line 103 and ends the thread.
cover_fetch ==
    /\ \E i \in DOMAIN workers :
        /\ workers[i].pc = "fetch"
        /\ \E ok \in BOOLEAN :
            workers' = SetPc(i, IF ok THEN "set_fname" ELSE "failed")
    /\ UNCHANGED <<_cover_fname, _cover_downloaded, downloaded_by>>
    /\ worker_unchanged

\* Line 101: bambu_display._cover_fname = cover_fname (a name unique to the thread).
cover_set_fname ==
    /\ \E i \in DOMAIN workers :
        /\ workers[i].pc = "set_fname"
        /\ _cover_fname' = i
        /\ workers' = SetPc(i, "set_downloaded")
    /\ UNCHANGED <<_cover_downloaded, downloaded_by>>
    /\ worker_unchanged

\* Line 102: bambu_display._cover_downloaded = True.
cover_set_downloaded ==
    /\ \E i \in DOMAIN workers :
        /\ workers[i].pc = "set_downloaded"
        /\ _cover_downloaded' = TRUE
        /\ downloaded_by' = workers[i].job
        /\ workers' = SetPc(i, "done")
    /\ UNCHANGED _cover_fname
    /\ worker_unchanged

(* ------------------------------ MyApp --------------------------------- *)

\* No handler of MyApp is running. SpecAuth starts main() and the button
\* callbacks of the one app instance REMI serves only when this holds, so
\* that they run one at a time.
Idle == \A t \in Threads : hq[t] = <<>>

Pop(t) == [hq EXCEPT ![t] = Tail(@)]
Push(t, ops) == [hq EXCEPT ![t] = ops \o Tail(@)]

\* set_cloud_state(new_state), lines 54-57: two assignments.
set_cloud_state(new_state) ==
    <<Op("write_state", new_state), Op("write_connected", "")>>

\* update_cloud_state, lines 59-76. The statements after the lookup depend on
\* its result and are added by get_device_list.
update_cloud_state ==
    <<Op("enter_update", "")>> \o set_cloud_state("UNKNOWN")
        \o <<Op("get_device_list", ""), Op("return_update", "")>>

\* Lines 65-73 with the test of line 69 inverted.
RefreshTarget_Inverted(res) ==
    IF res.kind = "ValueError" THEN "LOGGED_OUT"
    ELSE IF res.kind # "None" THEN "LOGGED_OUT"
    ELSE "LOGGED_IN"

\* Lines 65-73: the state update_cloud_state sets for a lookup result.
RefreshTarget(res) ==
    IF res.kind = "ValueError" THEN "LOGGED_OUT"
    ELSE IF res.kind = "None" THEN "LOGGED_OUT"
    ELSE "LOGGED_IN"

\* Lines 85-104 with the button of the BLOCKED case left out.
Offered_NoRetry(st) ==
    IF st = "LOGGED_OUT" THEN {"log_in"}
    ELSE IF st = "CODE_SENT" THEN {"enter_code"}
    ELSE IF st = "LOGGED_IN" THEN {"log_out"}
    ELSE {}

\* update_ui, lines 85-104: the buttons put on the page in each state.
Offered(st) ==
    IF st \in {"LOGGED_OUT", "BLOCKED"} THEN {"log_in"}
    ELSE IF st = "CODE_SENT" THEN {"enter_code"}
    ELSE IF st = "LOGGED_IN" THEN {"log_out"}
    ELSE {}

\* Lines 146-152 with the request of line 151 left out.
AfterLogin_NoCode(res) ==
    IF res = "CloudflareError" THEN set_cloud_state("BLOCKED")
    ELSE IF res = "EmailCodeRequiredError" THEN set_cloud_state("CODE_SENT")
    ELSE <<>>

\* Lines 146-152 with the token stored when cloud.login returns.
AfterLogin_StoresToken(res) ==
    IF res = "CloudflareError" THEN set_cloud_state("BLOCKED")
    ELSE IF res = "EmailCodeRequiredError"
         THEN <<Op("get_email_verification_code", "")>> \o set_cloud_state("CODE_SENT")
    ELSE <<Op("open_token_file", ""), Op("write_token", "")>>

\* Lines 146-152: what login_button_pressed does after each result of
\* cloud.login: nothing when it returns, else the handler of the exception.
AfterLogin(res) ==
    IF res = "CloudflareError" THEN set_cloud_state("BLOCKED")
    ELSE IF res = "EmailCodeRequiredError"
         THEN <<Op("get_email_verification_code", "")>> \o set_cloud_state("CODE_SENT")
    ELSE <<>>

\* MyApp.__init__, lines 39-42: REMI creates the app when a client first
\* opens the page.
MyApp_init ==
    /\ boot = "up"
    /\ cloud_state = "NoApp"
    /\ cloud_state' = "UNKNOWN"
    /\ app_init' = FALSE
    /\ UNCHANGED <<boot, _cloud_connected, job_vars, tok_vars, devices, offered, hq, call,
                   last, login_seen>>

\* main, lines 107-137: do_init on the first call (a refresh, then init =
\* True), a refresh, the widgets, update_ui.
main ==
    /\ cloud_state # "NoApp"
    /\ hq["http"] = <<>>
    /\ hq' = [hq EXCEPT !["http"] =
                (IF app_init THEN <<>> ELSE update_cloud_state \o <<Op("init_done", "")>>)
                \o update_cloud_state \o <<Op("update_ui", "")>>]
    /\ UNCHANGED <<boot, _cloud_connected, job_vars, tok_vars, devices, cloud_state, app_init,
                   offered, call, last, login_seen>>

\* login_button_pressed, lines 139-153.
login_button_pressed ==
    /\ "log_in" \in offered
    /\ hq["ws"] = <<>>
    /\ hq' = [hq EXCEPT !["ws"] =
                <<Op("login", ""), Op("update_ui", ""), Op("return", "")>>]
    /\ call' = [call EXCEPT !["ws"] = NewCall("login", cloud_state)]
    /\ last' = NoCall
    /\ user_acted' = TRUE
    /\ UNCHANGED <<boot, _cloud_connected, job_vars, devices, cloud_state, app_init,
                   offered, login_seen, token_file, auth_token, issued>>

\* Line 157 with the token file emptied as well.
Logout_ClearsToken == <<Op("open_token_file", "")>> \o set_cloud_state("LOGGED_OUT")

\* Line 157: all logout_button_pressed does before update_ui.
Logout == set_cloud_state("LOGGED_OUT")

\* logout_button_pressed, lines 155-158.
logout_button_pressed ==
    /\ "log_out" \in offered
    /\ hq["ws"] = <<>>
    /\ hq' = [hq EXCEPT !["ws"] =
                Logout \o <<Op("update_ui", ""), Op("return", "")>>]
    /\ call' = [call EXCEPT !["ws"] = NewCall("logout", cloud_state)]
    /\ last' = NoCall
    /\ user_acted' = TRUE
    /\ UNCHANGED <<boot, _cloud_connected, job_vars, devices, cloud_state, app_init,
                   offered, login_seen, token_file, auth_token, issued>>

\* The statement thread t executes next.
At(t, o) == hq[t] # <<>> /\ Head(hq[t]).op = o

\* Line 60: update_cloud_state is entered.
enter_update(t) ==
    /\ At(t, "enter_update")
    /\ call' = [call EXCEPT ![t] = NewCall("refresh", cloud_state)]
    /\ last' = NoCall
    /\ hq' = Pop(t)
    /\ UNCHANGED <<boot, _cloud_connected, job_vars, tok_vars, devices, cloud_state, app_init,
                   offered, login_seen>>

\* Line 56: self.cloud_state = new_state.
write_state(t) ==
    /\ At(t, "write_state")
    /\ cloud_state' = Head(hq[t]).arg
    /\ call' = [call EXCEPT ![t].sets = Append(@, Head(hq[t]).arg)]
    /\ hq' = Pop(t)
    /\ UNCHANGED <<boot, _cloud_connected, job_vars, tok_vars, devices, app_init, offered,
                   last, login_seen>>

\* Line 57: self.bambu_display._cloud_connected = self.cloud_state == LOGGED_IN.
write_connected(t) ==
    /\ At(t, "write_connected")
    /\ _cloud_connected' = (cloud_state = "LOGGED_IN")
    /\ hq' = Pop(t)
    /\ UNCHANGED <<boot, job_vars, tok_vars, devices, cloud_state, app_init, offered, call,
                   last, login_seen>>

\* Lines 63-75: the lookup and the branch on its result. An exception other
\* than ValueError is not caught: it leaves update_cloud_state and main.
get_device_list(t) ==
    /\ At(t, "get_device_list")
    /\ \E res \in DeviceListResults :
        LET c == [call[t] EXCEPT !.outcome = res.kind, !.n = res.n,
                                 !.raised = (res.kind = "Exception"),
                                 !.cloud = @ + 1]
        IN /\ call' = [call EXCEPT ![t] = IF c.raised THEN NoCall ELSE c]
           /\ IF res.kind = "Exception"
              THEN hq' = [hq EXCEPT ![t] = <<>>] /\ last' = c
              ELSE hq' = Push(t, set_cloud_state(RefreshTarget(res))) /\ last' = last
    /\ UNCHANGED <<boot, _cloud_connected, job_vars, tok_vars, devices, cloud_state, app_init,
                   offered, login_seen>>

\* update_cloud_state returns.
return_update(t) ==
    /\ At(t, "return_update")
    /\ last' = call[t]
    /\ call' = [call EXCEPT ![t] = NoCall]
    /\ hq' = Pop(t)
    /\ UNCHANGED <<boot, _cloud_connected, job_vars, tok_vars, devices, cloud_state, app_init,
                   offered, login_seen>>

\* Line 52: self.init = True.
init_done(t) ==
    /\ At(t, "init_done")
    /\ app_init' = TRUE
    /\ hq' = Pop(t)
    /\ UNCHANGED <<boot, _cloud_connected, job_vars, tok_vars, devices, cloud_state, offered,
                   call, last, login_seen>>

\* update_ui, lines 78-105.
update_ui(t) ==
    /\ At(t, "update_ui")
    /\ offered' = Offered(cloud_state)
    /\ hq' = Pop(t)
    /\ UNCHANGED <<boot, _cloud_connected, job_vars, tok_vars, devices, cloud_state, app_init,
                   call, last, login_seen>>

\* login_seen after login_button_pressed has ended as call c records.
Remember(c) ==
    IF c.op = "login" /\ c.from = "LOGGED_OUT"
    THEN [login_seen EXCEPT ![c.outcome] =
            [seen |-> TRUE, sets |-> c.sets, codes |-> c.codes]]
    ELSE login_seen

\* Lines 144-152: cloud.login and its except clauses. Another exception
\* leaves the handler before update_ui.
login(t) ==
    /\ At(t, "login")
    /\ \E res \in LoginResults :
        LET c == [call[t] EXCEPT !.outcome = res, !.raised = (res = "Exception"),
                                 !.cloud = @ + 1]
        IN /\ call' = [call EXCEPT ![t] = IF c.raised THEN NoCall ELSE c]
           /\ IF res = "Exception"
              THEN /\ hq' = [hq EXCEPT ![t] = <<>>]
                   /\ last' = c
                   /\ login_seen' = Remember(c)
              ELSE /\ hq' = Push(t, AfterLogin(res))
                   /\ UNCHANGED <<last, login_seen>>
    /\ UNCHANGED <<boot, _cloud_connected, job_vars, tok_vars, devices, cloud_state, app_init,
                   offered>>

\* Line 151: self.cloud._get_email_verification_code().
get_email_verification_code(t) ==
    /\ At(t, "get_email_verification_code")
    /\ call' = [call EXCEPT ![t].codes = @ + 1, ![t].cloud = @ + 1]
    /\ hq' = Pop(t)
    /\ UNCHANGED <<boot, _cloud_connected, job_vars, tok_vars, devices, cloud_state, app_init,
                   offered, last, login_seen>>

\* Lines 173-187 with the state set before the token is stored.
AfterVerify_StateFirst(res) ==
    IF res = "ok"
    THEN set_cloud_state("LOGGED_IN")
            \o <<Op("open_token_file", ""), Op("write_token", "")>>
    ELSE IF res \in {"EmailCodeExpiredError", "ValueError"}
         THEN <<Op("request_new_code", "")>> \o set_cloud_state("CODE_SENT")
    ELSE <<>>

\* Lines 173-187: what enter_code_button_pressed does after each result of
\* cloud.login_with_verification_code: the token is stored and the state set
\* when it returns, else the handler of the exception runs. The handler of
\* EmailCodeIncorrectError only sets the text of a label.
AfterVerify(res) ==
    IF res = "ok"
    THEN <<Op("open_token_file", ""), Op("write_token", "")>>
            \o set_cloud_state("LOGGED_IN")
    ELSE IF res \in {"EmailCodeExpiredError", "ValueError"}
         THEN <<Op("request_new_code", "")>> \o set_cloud_state("CODE_SENT")
    ELSE <<>>

\* enter_code_button_pressed, lines 165-188.
enter_code_button_pressed ==
    /\ "enter_code" \in offered
    /\ hq["ws"] = <<>>
    /\ hq' = [hq EXCEPT !["ws"] =
                set_cloud_state("LOGGING_IN")
                \o <<Op("update_ui", ""), Op("login_with_verification_code", ""),
                     Op("update_ui", ""), Op("return", "")>>]
    /\ call' = [call EXCEPT !["ws"] = NewCall("enter_code", cloud_state)]
    /\ last' = NoCall
    /\ user_acted' = TRUE
    /\ UNCHANGED <<boot, _cloud_connected, job_vars, devices, cloud_state, app_init,
                   offered, login_seen, token_file, auth_token, issued>>

\* Lines 171-173 and the except clauses: the cloud checks the code and, if it
\* accepts it, issues a token, which line 173 reads into "token". Another
\* exception leaves the handler before update_ui.
login_with_verification_code(t) ==
    /\ At(t, "login_with_verification_code")
    /\ \E res \in VerifyResults :
        /\ res = "ok" => issued < MaxTokens
        /\ LET c == [call[t] EXCEPT !.outcome = res, !.raised = (res = "Exception"),
                                    !.cloud = @ + 1,
                                    !.token = IF res = "ok" THEN issued + 1 ELSE NoToken]
           IN /\ call' = [call EXCEPT ![t] = IF c.raised THEN NoCall ELSE c]
              /\ issued' = IF res = "ok" THEN issued + 1 ELSE issued
              /\ IF res = "Exception"
                 THEN hq' = [hq EXCEPT ![t] = <<>>] /\ last' = c
                 ELSE hq' = Push(t, AfterVerify(res)) /\ last' = last
    /\ UNCHANGED <<boot, _cloud_connected, job_vars, devices, cloud_state, app_init,
                   offered, login_seen, token_file, auth_token, user_acted>>

\* Line 175: open(self.bambu_display._token_path, "w+") creates the file or
\* empties it.
open_token_file(t) ==
    /\ At(t, "open_token_file")
    /\ token_file' = EmptyFile
    /\ hq' = Pop(t)
    /\ UNCHANGED <<boot, _cloud_connected, job_vars, devices, cloud_state, app_init,
                   offered, call, last, login_seen, auth_token, issued, user_acted>>

\* Line 176: f.write(token), and the file is closed.
write_token(t) ==
    /\ At(t, "write_token")
    /\ token_file' = call[t].token
    /\ hq' = Pop(t)
    /\ UNCHANGED <<boot, _cloud_connected, job_vars, devices, cloud_state, app_init,
                   offered, call, last, login_seen, auth_token, issued, user_acted>>

\* Lines 180 and 184: self.cloud.bambu_cloud._get_email_verification_code().
\* self.cloud is the client's bambu_cloud already (line 50); pybambu decides
\* whether that object has a bambu_cloud of its own. If it has, a code is
\* requested; if not, the AttributeError leaves the handler.
bambu_cloud_get_email_verification_code(t) ==
    /\ At(t, "request_new_code")
    /\ \/ /\ call' = [call EXCEPT ![t].codes = @ + 1, ![t].cloud = @ + 1]
          /\ hq' = Pop(t)
          /\ last' = last
       \/ /\ call' = [call EXCEPT ![t] = NoCall]
          /\ hq' = [hq EXCEPT ![t] = <<>>]
          /\ last' = [call[t] EXCEPT !.raised = TRUE]
    /\ UNCHANGED <<boot, _cloud_connected, job_vars, tok_vars, devices, cloud_state, app_init,
                   offered, login_seen>>

\* A button handler returns.
handler_return(t) ==
    /\ At(t, "return")
    /\ last' = call[t]
    /\ call' = [call EXCEPT ![t] = NoCall]
    /\ login_seen' = Remember(call[t])
    /\ hq' = Pop(t)
    /\ UNCHANGED <<boot, _cloud_connected, job_vars, tok_vars, devices, cloud_state, app_init,
                   offered>>

(* -------------------------- specifications ---------------------------- *)

NextJob ==
    \/ BambuDisplay_read_token
    \/ BambuDisplay_get_device_list
    \/ BambuDisplay_update_cloud_state
    \/ telemetry_update
    \/ telemetry_link
    \/ draw
    \/ cover_fetch
    \/ cover_set_fname
    \/ cover_set_downloaded

NextAuth ==
    \/ restart
    \/ BambuDisplay_read_token
    \/ BambuDisplay_get_device_list
    \/ BambuDisplay_update_cloud_state
    \/ MyApp_init
    \/ Idle /\ main
    \/ Idle /\ login_button_pressed
    \/ Idle /\ logout_button_pressed
    \/ Idle /\ enter_code_button_pressed
    \/ \E t \in Threads : enter_update(t)
    \/ \E t \in Threads : write_state(t)
    \/ \E t \in Threads : write_connected(t)
    \/ \E t \in Threads : get_device_list(t)
    \/ \E t \in Threads : return_update(t)
    \/ \E t \in Threads : init_done(t)
    \/ \E t \in Threads : update_ui(t)
    \/ \E t \in Threads : login(t)
    \/ \E t \in Threads : get_email_verification_code(t)
    \/ \E t \in Threads : login_with_verification_code(t)
    \/ \E t \in Threads : open_token_file(t)
    \/ \E t \in Threads : write_token(t)
    \/ \E t \in Threads : bambu_cloud_get_email_verification_code(t)
    \/ \E t \in Threads : handler_return(t)

\* One run of the web app in which nothing keeps the thread serving a page
\* request and the thread serving the websocket from running MyApp's code at
\* once: the source takes no lock. The refresh of main() overlaps the login
\* and logout callbacks; the callback of the code field is left to NextAuth.
NextConc ==
    \/ BambuDisplay_read_token
    \/ BambuDisplay_get_device_list
    \/ BambuDisplay_update_cloud_state
    \/ MyApp_init
    \/ main
    \/ login_button_pressed
    \/ logout_button_pressed
    \/ \E t \in Threads : enter_update(t)
    \/ \E t \in Threads : write_state(t)
    \/ \E t \in Threads : write_connected(t)
    \/ \E t \in Threads : get_device_list(t)
    \/ \E t \in Threads : return_update(t)
    \/ \E t \in Threads : init_done(t)
    \/ \E t \in Threads : update_ui(t)
    \/ \E t \in Threads : login(t)
    \/ \E t \in Threads : get_email_verification_code(t)
    \/ \E t \in Threads : handler_return(t)

Next == NextJob \/ NextAuth \/ NextConc

\* The whole program.
Spec == Init /\ [][Next]_vars

\* The render loop, the telemetry and the cover workers, after either result
\* of the start-up cloud check.
SpecJob == Init /\ [][NextJob]_vars

\* The start-up cloud check and the web app's login state machine.
SpecAuth == Init /\ [][NextAuth]_vars

\* The web app with main() and a button callback running at the same time.
SpecConc == Init /\ [][NextConc]_vars

(* ------------------------------ claims -------------------------------- *)

\* C1: the detection takes exactly one job-start transition per maximal run
\* of active snapshots it observes and exactly one job-end transition per
\* change from an active to a terminal snapshot, however many snapshots of a
\* run are replayed.
C1_OneTransitionPerRun == job_starts = runs /\ job_ends = drops

\* A second run has started after a first one ended, and the last tick
\* replayed an active snapshot of it without any transition.
C1_Witness ==
    /\ job_starts = 2
    /\ job_ends = 1
    /\ last_active
    /\ tick_result = "None"

\* C2: after every detection step a print job is tracked if and only if the
\* snapshot just observed has a job descriptor with a non-terminal gcode_state.
C2_TrackedIffActive == (_print_job # "None") <=> last_active

\* A tick has just ended a job on a terminal snapshot.
C2_Witness ==
    /\ tick_result = "JobEnded"
    /\ _print_job = "None"
    /\ ~last_active
    /\ job_starts = 1

\* C3: when a job was started on a snapshot without a start time and the
\* detection then observes an active snapshot carrying start time T, the first
\* start time and the job start time both become T and that tick takes neither
\* a job-start nor a job-end transition.
C3_Backfill ==
    backfill_T # NoTime =>
        /\ _first_print_job_start = backfill_T
        /\ _print_job_start = backfill_T
        /\ tick_result = "None"
        /\ _print_job # "None"

\* A tracked job whose start time was absent has just been given one.
C3_Witness == backfill_T # NoTime /\ job_starts = 1 /\ job_ends = 0

\* C4: at most one cover worker is started during the life of one tracked
\* print job.
C4_AtMostOneWorkerPerJob ==
    \A i, j \in DOMAIN workers : i # j => workers[i].job # workers[j].job

\* The worker of the tracked job has finished, its cover has been loaded and
\* a later tick of the same job changed nothing.
C4_Witness ==
    /\ _print_job # "None"
    /\ tick_result = "None"
    /\ _cover_image # NoCover
    /\ \E i \in DOMAIN workers : workers[i].job = job_starts /\ workers[i].pc = "done"

\* C5: every job-start transition dispatches exactly one cover fetch.
C5_OneFetchPerJobStart ==
    \A g \in 1..job_starts :
        Cardinality({i \in DOMAIN workers : workers[i].job = g}) = 1

\* C6: the result of a fetch started for a job never marks the cover as ready
\* once that job has ended: the cover is marked ready only for the tracked job
\* and by the worker started for it.
C6_StaleResultDiscarded ==
    _cover_downloaded => (_print_job # "None" /\ downloaded_by = job_starts)

\* C7: a cloud-state refresh whose lookup returns at least one device ends
\* with the auth state LOGGED_IN and the connected flag true; the display's
\* own start-up check, which has no auth state to set, ends with the connected
\* flag true.
C7_RefreshWithDevices ==
    /\ [](last.op = "refresh" /\ last.outcome = "list" /\ last.n >= 1
            => cloud_state = "LOGGED_IN" /\ _cloud_connected)
    /\ [][boot = "checking" /\ boot' = "up" /\ devices.kind = "list" /\ devices.n >= 1
            => _cloud_connected']_vars

\* A refresh that began in LOGGED_OUT has returned after a lookup that found
\* a device.
C7_Witness ==
    /\ last.op = "refresh"
    /\ last.from = "LOGGED_OUT"
    /\ last.outcome = "list"
    /\ last.n >= 1
    /\ cloud_state = "LOGGED_IN"

\* C8: a cloud-state refresh whose lookup returns an empty list or raises an
\* authentication error ends with the auth state LOGGED_OUT and the connected
\* flag false.
C8_RefreshWithoutDevices ==
    /\ last.op = "refresh"
    /\ \/ last.outcome = "list" /\ last.n = 0
       \/ last.outcome = "ValueError"
    => cloud_state = "LOGGED_OUT" /\ ~_cloud_connected

\* C9: a "log in" pressed in LOGGED_OUT or BLOCKED whose login call returns
\* without raising ends with the auth state LOGGED_IN and the connected flag
\* true.
C9_LoginSuccess ==
    /\ last.op = "login"
    /\ last.from \in {"LOGGED_OUT", "BLOCKED"}
    /\ last.outcome = "ok"
    => cloud_state = "LOGGED_IN" /\ _cloud_connected

\* C10: a login that raised the Cloudflare error ends in BLOCKED; in BLOCKED
\* the page offers "log in"; and a login started in BLOCKED passes the same
\* states to set_cloud_state and requests as many verification codes as a
\* login started in LOGGED_OUT that got the same result.
C10_BlockedRetry ==
    /\ last.op = "login" /\ last.outcome = "CloudflareError"
        => cloud_state = "BLOCKED" /\ ~_cloud_connected
    /\ Idle /\ cloud_state = "BLOCKED" => "log_in" \in offered
    /\ last.op = "login" /\ last.from = "BLOCKED" /\ login_seen[last.outcome].seen
        => /\ last.sets = login_seen[last.outcome].sets
           /\ last.codes = login_seen[last.outcome].codes

\* A retry from BLOCKED was asked for a verification code, as a login from
\* LOGGED_OUT had been before.
C10_Witness ==
    /\ last.op = "login"
    /\ last.from = "BLOCKED"
    /\ last.outcome = "EmailCodeRequiredError"
    /\ login_seen["EmailCodeRequiredError"].seen
    /\ cloud_state = "CODE_SENT"

\* C11: a login whose cloud.login call raised EmailCodeRequiredError has
\* requested exactly one verification code from the cloud and ends with the
\* auth state CODE_SENT.
C11_CodeRequired ==
    last.op = "login" /\ last.outcome = "EmailCodeRequiredError"
        => last.codes = 1 /\ cloud_state = "CODE_SENT" /\ ~_cloud_connected

\* A login pressed in LOGGED_OUT was answered with EmailCodeRequiredError and
\* has returned.
C11_Witness ==
    /\ last.op = "login"
    /\ last.from = "LOGGED_OUT"
    /\ last.outcome = "EmailCodeRequiredError"
    /\ last.sets = <<"CODE_SENT">>
    /\ "enter_code" \in offered

\* C12: a code submitted in CODE_SENT that the cloud accepts ends with the
\* issued token in the token file, the auth state LOGGED_IN and the connected
\* flag true; and from the moment that handler has set LOGGED_IN the token
\* file holds the issued token.
C12_VerifySuccess ==
    /\ last.op = "enter_code" /\ last.from = "CODE_SENT" /\ last.outcome = "ok"
        => /\ token_file = last.token
           /\ last.token \in Tokens
           /\ cloud_state = "LOGGED_IN"
           /\ _cloud_connected
    /\ \A t \in Threads :
        /\ call[t].op = "enter_code" /\ call[t].from = "CODE_SENT"
        /\ call[t].outcome = "ok"
        /\ hq[t] # <<>>
        /\ cloud_state = "LOGGED_IN"
        => token_file = call[t].token

\* The handler of an accepted code has just set LOGGED_IN, before it set the
\* connected flag, over a token file that held an earlier token.
C12_Witness ==
    /\ call["ws"].op = "enter_code"
    /\ call["ws"].from = "CODE_SENT"
    /\ call["ws"].outcome = "ok"
    /\ call["ws"].file \in Tokens
    /\ At("ws", "write_connected")
    /\ cloud_state = "LOGGED_IN"
    /\ token_file = call["ws"].token

\* C13: a submitted code that the cloud rejects as incorrect ends with the
\* auth state CODE_SENT, the token file as it was, no token written and no
\* verification code requested.
C13_IncorrectCode ==
    last.op = "enter_code" /\ last.outcome = "EmailCodeIncorrectError"
        => /\ cloud_state = "CODE_SENT"
           /\ token_file = last.file
           /\ last.codes = 0

\* C14: a "log out" pressed in LOGGED_IN ends with the auth state LOGGED_OUT
\* and the connected flag false, has made no call to the cloud client and
\* leaves the token file as it found it.
C14_Logout ==
    last.op = "logout" /\ last.from = "LOGGED_IN"
        => /\ cloud_state = "LOGGED_OUT"
           /\ ~_cloud_connected
           /\ last.cloud = 0
           /\ token_file = last.file

\* A logout pressed in LOGGED_IN, with a token in the token file, has
\* returned.
C14_Witness ==
    /\ last.op = "logout"
    /\ last.from = "LOGGED_IN"
    /\ last.file \in Tokens
    /\ last.sets = <<"LOGGED_OUT">>
    /\ "log_in" \in offered

\* C15: in every state the render thread can observe once the web app
\* exists, the connected flag of the display is true exactly when the auth
\* state is LOGGED_IN.
C15_ConnectedIffLoggedIn ==
    boot = "up" /\ cloud_state # "NoApp"
        => (_cloud_connected <=> cloud_state = "LOGGED_IN")

\* C16: a refresh that began in LOGGED_IN and whose lookup raised an exception
\* other than the authentication error has set no state, and the auth state
\* is LOGGED_IN and the connected flag true when it has ended.
C16_TransientFailure ==
    last.op = "refresh" /\ last.from = "LOGGED_IN" /\ last.outcome = "Exception"
        => /\ last.sets = <<>>
           /\ cloud_state = "LOGGED_IN"
           /\ _cloud_connected

\* C17: every step that changes the token file is a step of
\* enter_code_button_pressed taken after the cloud accepted the code; no step
\* of a refresh, a login, a logout or a failed code submission changes it.
C17_TokenWrittenOnlyByVerify ==
    [][token_file' # token_file
        => \E t \in Threads :
            /\ call[t].op = "enter_code"
            /\ call[t].outcome = "ok"
            /\ hq'[t] = Tail(hq[t])]_vars

\* On a start without a token file, an accepted code has created the file;
\* a login and the refreshes before it had left it absent.
C17_Witness ==
    /\ last.op = "enter_code"
    /\ last.outcome = "ok"
    /\ last.file = NoFile
    /\ token_file = last.token
    /\ login_seen["EmailCodeRequiredError"].seen

\* C18: a token found in the token file at the start is the auth_token given
\* to the cloud client before any button is pressed; before any button is
\* pressed the auth state is never CODE_SENT; and a refresh of a client so
\* started whose lookup the cloud answers with devices ends with the auth
\* state LOGGED_IN and the connected flag true.
C18_TokenRoundTrip ==
    /\ boot # "created" /\ ~user_acted /\ token_file \in Tokens
        => auth_token = token_file
    /\ ~user_acted => cloud_state # "CODE_SENT"
    /\ /\ auth_token \in Tokens /\ ~user_acted
       /\ last.op = "refresh" /\ last.outcome = "list" /\ last.n >= 1
       => cloud_state = "LOGGED_IN" /\ _cloud_connected

\* Started again on the token file an accepted code had written in the run
\* before, the first refresh of the web app has found a device, no button
\* having been pressed.
C18_Witness ==
    /\ token_file \in Tokens
    /\ issued = token_file
    /\ auth_token = token_file
    /\ ~user_acted
    /\ last.op = "refresh"
    /\ last.from = "UNKNOWN"
    /\ last.n >= 1
    /\ cloud_state = "LOGGED_IN"
    /\ _cloud_connected

\* Thread t has set the auth state or the connected flag in the call it is
\* running and has such a write still to make.
InTransition(t) ==
    /\ call[t].sets # <<>>
    /\ \E i \in DOMAIN hq[t] : hq[t][i].op \in {"write_state", "write_connected"}

\* The step is a write of the auth state or of the connected flag by thread u.
WritesAuth(u) ==
    /\ At(u, "write_state") \/ At(u, "write_connected")
    /\ hq'[u] = Tail(hq[u])

C20_NoStartWithoutJob ==
    _print_job = "None" => _print_job_start \in {NoTime, Unset}

\* C21: while the job whose cover worker has failed is tracked, the cover is
\* not marked ready, and that worker is the only one started for the job.
C21_FailedDownload ==
    \A i \in DOMAIN workers :
        /\ workers[i].pc = "failed"
        /\ workers[i].job = job_starts
        /\ _print_job # "None"
        => /\ ~_cover_downloaded
           /\ \A j \in DOMAIN workers : workers[j].job = workers[i].job => j = i

\* C22: in no state is the cover path the one of a worker that has not yet
\* marked the cover ready, and whenever the cover is marked ready the path is
\* the one written by the worker that marked it.
C22_NoTornCover ==
    /\ \A i \in DOMAIN workers :
        workers[i].pc = "set_downloaded" /\ _cover_fname = i => _cover_downloaded
    /\ _cover_downloaded =>
        /\ _cover_fname \in DOMAIN workers
        /\ workers[_cover_fname].job = downloaded_by

\* C23: a submitted code that the cloud rejects as expired ends with exactly
\* one new verification code requested, the auth state CODE_SENT and the
\* token file as it was.
C23_ExpiredCode ==
    last.op = "enter_code" /\ last.outcome = "EmailCodeExpiredError"
        => /\ last.codes = 1
           /\ cloud_state = "CODE_SENT"
           /\ token_file = last.file

\* C24: every step that changes the auth state is a transition of the table:
\* a refresh changes it only from UNKNOWN, CODE_SENT is entered only by a
\* login that required verification or by a failed code submission, and
\* LOGGED_OUT is entered only by a refresh or by a logout in LOGGED_IN.
C24_TableTransitions ==
    [][\A t \in Threads :
        /\ At(t, "write_state")
        /\ hq'[t] = Tail(hq[t])
        /\ cloud_state' # cloud_state
        => /\ call[t].op = "refresh" => cloud_state = "UNKNOWN"
           /\ cloud_state' = "CODE_SENT" =>
                \/ call[t].op = "login" /\ call[t].outcome = "EmailCodeRequiredError"
                \/ /\ call[t].op = "enter_code"
                   /\ call[t].outcome \in {"EmailCodeExpiredError", "ValueError",
                                            "EmailCodeIncorrectError"}
           /\ cloud_state' = "LOGGED_OUT" =>
                \/ call[t].op = "refresh"
                \/ call[t].op = "logout" /\ cloud_state = "LOGGED_IN"]_vars

\* C25: a refresh that has ended, whatever its lookup did, has left the auth
\* state LOGGED_IN or LOGGED_OUT: UNKNOWN does not outlast the refresh that
\* set it.
C25_UnknownTransient ==
    last.op = "refresh" => cloud_state \in {"LOGGED_IN", "LOGGED_OUT"}

\* C26: once enter_code_button_pressed has ended after the cloud accepted the
\* code or rejected it as expired, incorrect or invalid, the auth state is
\* LOGGED_IN or CODE_SENT, not LOGGING_IN.
C26_LoggingInNotLeft ==
    /\ last.op = "enter_code"
    /\ last.outcome \in {"ok", "EmailCodeExpiredError", "EmailCodeIncorrectError",
                          "ValueError"}
    => cloud_state \in {"LOGGED_IN", "CODE_SENT"}

\* C27: the connected flag a refresh of the web app ends with is the one the
\* start-up check of the display computes from the same answer of the lookup
\* (a list, empty or not, None, or ValueError).
C27_SameConnectedFlag ==
    last.op = "refresh" /\ last.outcome # "Exception"
        => (_cloud_connected
                <=> DisplayConnected([kind |-> last.outcome, n |-> last.n]))

====
